---- MODULE Spec2Model ----
(***************************************************************************)
(* Limit-order-book market simulator of                                    *)
(* src/Market_Simulation/market_simulation.py.                             *)
(*                                                                         *)
(* Units.  A price is an integer number of ticks (price = k * TICK_SIZE,   *)
(* what round_price returns).  The mid price can fall between two ticks,   *)
(* so mid, the OHLC bar and price_hist are kept in half ticks (2 * price / *)
(* TICK_SIZE).  Relative coefficients (spreads, DELTA, the inventory       *)
(* coefficients) are integers in units of 1e-5.  Arithmetic is exact;      *)
(* round() is Python's round-half-to-even.                                 *)
(*                                                                         *)
(* The LimitOrder objects live in all_orders (a map id -> fields; the      *)
(* script's list all_orders holds them in id order) and the registry       *)
(* ob.orders holds the ids of the objects it references.                   *)
(***************************************************************************)
EXTENDS Integers, Sequences, FiniteSets, TLC

\* ---------------- Simulation parameters (lines 10-40) --------------------
TICKS == 2                \* ticks of a run (300 in the script)
P0 == 100                 \* initial price
TICKS_PER_UNIT == 100     \* 1 / TICK_SIZE, TICK_SIZE = 0.01
TREND_WINDOW == 2
P_MARKET_BUY == 80000     \* 0.8 in units of 1e-5
P_MARKET_SELL == 80000    \* 0.8 in units of 1e-5
DELTA == 2000             \* 0.02 in units of 1e-5
P_CANCEL == 2500          \* 0.025 in units of 1e-5
MM_BASE_SPREAD == 300     \* 0.003 in units of 1e-5
MM_BASE_VOL == 150
INV_ALPHA == 5            \* 0.00005 in units of 1e-5
INV_VOL_BETA == 40        \* 0.0004 in units of 1e-5
INV_SPREAD_GAMMA == 1     \* 0.00001 in units of 1e-5
INV_MAX == 5000
UNIT == 100000            \* the 1e-5 scale of the coefficients above
THRESH_TENTHS == 9        \* thresh = 0.9 (line 438), in tenths
HORIZON == 100            \* the cap of the resilience scan (line 442)
WINDOW == 100             \* the rolling Hurst window (line 457)
MIN_CHUNK == 20           \* min_chunk of the rolling call (line 461)

\* ---------------- Bounds of the model ------------------------------------
MaxOps == 4               \* calls on a free-standing OrderBook
MaxVol == 2               \* volumes 1..MaxVol of those calls
MaxEvents == 2            \* order events plus cancellations of one run
MaxCancel == 1            \* orders one call on a free-standing book cancels
BigVol == 6000            \* the large volume draw (beyond INV_MAX + MM_BASE_VOL)
IdOffset == 7             \* LimitOrder._id left behind by an earlier run
MaxLevels == 3            \* depth_side is asked for 0..MaxLevels levels
DepthOps == 3             \* calls that build the books depth_side is given
MaxSeries == 4            \* length of the liquidity series drawn in full

\* Python's None (an unset end_tick, the best price of an empty side) and
\* numpy's nan, as integers no tick, price or price difference takes
None == -1
NaN == -1000000
Raises == -2              \* the result of a call that raised
NoExc == "ok"             \* no exception raised so far
\* the slope np.polyfit returns (line 261): a finite number, whose value the
\* model does not compute
H_FIT == 0

Max(S) == CHOOSE x \in S : \A y \in S : y <= x
Min(S) == CHOOSE x \in S : \A y \in S : x <= y
Min2(a, b) == IF a <= b THEN a ELSE b
Max2(a, b) == IF a >= b THEN a ELSE b
Abs(x) == IF x < 0 THEN -x ELSE x
Range(s) == {s[i] : i \in 1..Len(s)}

RECURSIVE SumOver(_, _)
\* sum of f[x] over the finite set S
SumOver(S, f) ==
    IF S = {} THEN 0
    ELSE LET x == CHOOSE y \in S : TRUE IN f[x] + SumOver(S \ {x}, f)

RECURSIVE SortedSeq(_)
\* the elements of a finite set of integers in ascending order
SortedSeq(S) ==
    IF S = {} THEN <<>> ELSE LET m == Min(S) IN <<m>> \o SortedSeq(S \ {m})

\* list.remove(x): drops the first occurrence; ValueError when absent
RemoveFirst(s, x) ==
    LET i == Min({j \in 1..Len(s) : s[j] = x})
    IN SubSeq(s, 1, i - 1) \o SubSeq(s, i + 1, Len(s))

\* del d[k]
DelKey(d, k) == [p \in (DOMAIN d) \ {k} |-> d[p]]
\* d[k] = v
SetKey(d, k, v) == [p \in (DOMAIN d) \cup {k} |-> IF p = k THEN v ELSE d[p]]

\* ---------------- LimitOrder (lines 46-68) --------------------------------
LimitOrder(id, side, price, volume, start_tick) ==
    [id |-> id, side |-> side, price |-> price, volume |-> volume,
     start_tick |-> start_tick, end_tick |-> None, mm_tag |-> FALSE]

\* ---------------- OrderBook (lines 70-203) --------------------------------
\* A book value: [bids, asks : price -> queue of ids, orders : set of ids,
\*                objs : id -> LimitOrder, exc : exception raised or NoExc]
OrderBook == [bids |-> <<>>, asks |-> <<>>, orders |-> {}, objs |-> <<>>,
              exc |-> NoExc]

SideBook(b, side) == IF side = "buy" THEN b.bids ELSE b.asks
WithSide(b, side, book) ==
    IF side = "buy" THEN [b EXCEPT !.bids = book] ELSE [b EXCEPT !.asks = book]

\* the new object joins the heap (LimitOrder.__init__ has run)
create(b, order) == [b EXCEPT !.objs = SetKey(@, order.id, order)]

\* add_limit with the id inserted at the front of the level's queue
add_limit_front(b, order) ==
    LET book == SideBook(b, order.side)
        q == IF order.price \in DOMAIN book THEN book[order.price] ELSE <<>>
        b2 == WithSide(b, order.side,
                       SetKey(book, order.price, <<order.id>> \o q))
    IN [b2 EXCEPT !.orders = @ \cup {order.id}]

add_limit(b, order) ==
    LET book == SideBook(b, order.side)
        q == IF order.price \in DOMAIN book THEN book[order.price] ELSE <<>>
        b2 == WithSide(b, order.side,
                       SetKey(book, order.price, Append(q, order.id)))
    IN [b2 EXCEPT !.orders = @ \cup {order.id}]

\* best_bid without the `if self.bids` guard: max() of no keys raises
best_bid_unguarded(b) ==
    IF DOMAIN b.bids # {} THEN Max(DOMAIN b.bids) ELSE Raises

best_bid(b) == IF DOMAIN b.bids # {} THEN Max(DOMAIN b.bids) ELSE None
best_ask(b) == IF DOMAIN b.asks # {} THEN Min(DOMAIN b.asks) ELSE None

\* fill_head with `filled += order.volume` for `filled += take`
fill_overcount(ids, st, t) ==
    LET oid == Head(ids)
        order == st.objs[oid]
        take == Min2(st.vol, order.volume)
        left == order.volume - take
        st1 == [st EXCEPT !.objs[oid].volume = left,
                          !.filled = @ + order.volume,
                          !.vol = @ - take]
    IN IF left = 0
       THEN [ids |-> Tail(ids),
             st |-> [st1 EXCEPT !.objs[oid].end_tick = t, !.orders = @ \ {oid}]]
       ELSE [ids |-> ids, st |-> st1]

\* fill_head that sends a partly filled order to the back of its queue
fill_requeue(ids, st, t) ==
    LET oid == Head(ids)
        order == st.objs[oid]
        take == Min2(st.vol, order.volume)
        left == order.volume - take
        st1 == [st EXCEPT !.objs[oid].volume = left,
                          !.filled = @ + take,
                          !.vol = @ - take]
    IN IF left = 0
       THEN [ids |-> Tail(ids),
             st |-> [st1 EXCEPT !.objs[oid].end_tick = t, !.orders = @ \ {oid}]]
       ELSE [ids |-> Append(Tail(ids), oid), st |-> st1]

\* fill_head without `del self.orders[oid]`
fill_keep_registered(ids, st, t) ==
    LET oid == Head(ids)
        order == st.objs[oid]
        take == Min2(st.vol, order.volume)
        left == order.volume - take
        st1 == [st EXCEPT !.objs[oid].volume = left,
                          !.filled = @ + take,
                          !.vol = @ - take]
    IN IF left = 0
       THEN [ids |-> Tail(ids), st |-> [st1 EXCEPT !.objs[oid].end_tick = t]]
       ELSE [ids |-> ids, st |-> st1]

\* one pass of the inner loop body of _consume (lines 134-143): fill the
\* order at the head of ids; st = [orders, objs, vol, filled, exc]
fill_head(ids, st, t) ==
    LET oid == Head(ids) IN
    IF oid \notin st.orders
    THEN [ids |-> ids, st |-> [st EXCEPT !.exc = "KeyError"]]
    ELSE LET order == st.objs[oid]
             take == Min2(st.vol, order.volume)
             left == order.volume - take
             st1 == [st EXCEPT !.objs[oid].volume = left,
                               !.filled = @ + take,
                               !.vol = @ - take]
         IN IF left = 0
            THEN [ids |-> Tail(ids),
                  st |-> [st1 EXCEPT !.objs[oid].end_tick = t,
                                     !.orders = @ \ {oid}]]
            ELSE [ids |-> ids, st |-> st1]

RECURSIVE consume_level(_, _)
\* the inner loop of _consume (line 133) over the queue of one price level;
\* r = [ids, st]
consume_level(r, t) ==
    IF r.ids # <<>> /\ r.st.vol > 0 /\ r.st.exc = NoExc
    THEN consume_level(fill_head(r.ids, r.st, t), t)
    ELSE r

\* _consume with `if` for the outer `while`: one price level only
consume_book_one_level(book, st, asc, t) ==
    IF st.vol > 0 /\ DOMAIN book # {} /\ st.exc = NoExc
    THEN LET price == IF asc THEN Min(DOMAIN book) ELSE Max(DOMAIN book)
             r == consume_level([ids |-> book[price], st |-> st], t)
             book2 == IF r.ids = <<>> THEN DelKey(book, price)
                      ELSE [book EXCEPT ![price] = r.ids]
         IN [book |-> book2, st |-> r.st]
    ELSE [book |-> book, st |-> st]

RECURSIVE consume_book(_, _, _, _)
\* the outer loop of _consume (lines 130-144) over the price levels of book
consume_book(book, st, asc, t) ==
    IF st.vol > 0 /\ DOMAIN book # {} /\ st.exc = NoExc
    THEN LET price == IF asc THEN Min(DOMAIN book) ELSE Max(DOMAIN book)
             r == consume_level([ids |-> book[price], st |-> st], t)
             book2 == IF r.ids = <<>> THEN DelKey(book, price)
                      ELSE [book EXCEPT ![price] = r.ids]
         IN consume_book(book2, r.st, asc, t)
    ELSE [book |-> book, st |-> st]

\* _consume on the bids (side = "buy") or the asks (side = "sell") of b:
\* the book afterwards and the volume filled
_consume(b, side, vol, asc, t) ==
    LET r == consume_book(SideBook(b, side),
                 [orders |-> b.orders, objs |-> b.objs, vol |-> vol,
                  filled |-> 0, exc |-> b.exc], asc, t)
        b2 == WithSide(b, side, r.book)
    IN [b |-> [b2 EXCEPT !.orders = r.st.orders, !.objs = r.st.objs,
                         !.exc = r.st.exc],
        filled |-> r.st.filled]

\* match_market with the price order of the two sides swapped
match_market_swapped(b, side, vol, t) ==
    _consume(b, IF side = "buy" THEN "sell" ELSE "buy", vol, side # "buy", t)

\* match_market that leaves the unfilled remainder resting on the
\* submitter's own side, at the reference price
match_market_resting(b, side, vol, t) ==
    LET m == _consume(b, IF side = "buy" THEN "sell" ELSE "buy", vol,
                      side = "buy", t)
        rest == LimitOrder(Max(DOMAIN b.objs \cup {-1}) + 1, side,
                           P0 * TICKS_PER_UNIT, vol - m.filled, t)
    IN IF m.filled < vol
       THEN [b |-> add_limit(create(m.b, rest), rest), filled |-> m.filled]
       ELSE m

match_market(b, side, vol, t) ==
    _consume(b, IF side = "buy" THEN "sell" ELSE "buy", vol, side = "buy", t)

\* remove_order without `if not book[order.price]: del book[order.price]`
remove_order_keep_level(b, oid, t) ==
    LET order == b.objs[oid]
        book == SideBook(b, order.side)
        q == RemoveFirst(book[order.price], oid)
        b2 == WithSide(b, order.side, [book EXCEPT ![order.price] = q])
    IN [b2 EXCEPT !.objs[oid].end_tick = t, !.orders = @ \ {oid}]

\* remove_order guarded by `if oid:`, which skips the order whose id is 0
remove_order_unless_id0(b, oid, t) ==
    IF oid = 0 THEN b
    ELSE LET order == b.objs[oid]
             book == SideBook(b, order.side)
             q == RemoveFirst(book[order.price], oid)
             book2 == IF q = <<>> THEN DelKey(book, order.price)
                      ELSE [book EXCEPT ![order.price] = q]
             b2 == WithSide(b, order.side, book2)
         IN [b2 EXCEPT !.objs[oid].end_tick = t, !.orders = @ \ {oid}]

\* remove_order that puts the orders left at the level in reverse order
remove_order_reversing(b, oid, t) ==
    LET order == b.objs[oid]
        book == SideBook(b, order.side)
        q0 == RemoveFirst(book[order.price], oid)
        q == [i \in 1..Len(q0) |-> q0[Len(q0) + 1 - i]]
        book2 == IF q = <<>> THEN DelKey(book, order.price)
                 ELSE [book EXCEPT ![order.price] = q]
        b2 == WithSide(b, order.side, book2)
    IN [b2 EXCEPT !.objs[oid].end_tick = t, !.orders = @ \ {oid}]

\* lines 177-181 (and 199-203): take one order out of its level and registry
remove_order(b, oid, t) ==
    LET order == b.objs[oid]
        book == SideBook(b, order.side)
    IN IF order.price \notin DOMAIN book
       THEN [b EXCEPT !.exc = "KeyError"]
       ELSE IF oid \notin Range(book[order.price])
       THEN [b EXCEPT !.exc = "ValueError"]
       ELSE LET q == RemoveFirst(book[order.price], oid)
                book2 == IF q = <<>> THEN DelKey(book, order.price)
                         ELSE [book EXCEPT ![order.price] = q]
                b2 == WithSide(b, order.side, book2)
            IN [b2 EXCEPT !.objs[oid].end_tick = t, !.orders = @ \ {oid}]

RECURSIVE remove_each(_, _, _, _)
\* the loop over list(self.orders.items()), in insertion (= id) order,
\* removing the orders of hit
remove_each(b, items, hit, t) ==
    IF items = <<>> \/ b.exc # NoExc THEN b
    ELSE IF Head(items) \in hit
         THEN remove_each(remove_order(b, Head(items), t), Tail(items), hit, t)
         ELSE remove_each(b, Tail(items), hit, t)

\* cancel_random(p, t); draws = the orders whose random.random() < p
cancel_random(b, draws, t) ==
    remove_each(b, SortedSeq(b.orders), draws \cap b.orders, t)

\* remove_by_flag(flag, t); flagged = the orders for which flag(order) holds
remove_by_flag(b, flagged, t) ==
    remove_each(b, SortedSeq(b.orders), flagged \cap b.orders, t)

\* mm_flag that looks for the quotes of the tick itself, `start_tick == t`
mm_flag_same_tick(o, t) == o.start_tick = t /\ o.mm_tag

\* the predicate the tick loop passes to remove_by_flag (line 293)
mm_flag(o, t) == o.start_tick = t - 1 /\ o.mm_tag

\* ---------------- depth_side (lines 205-219) ------------------------------
RECURSIVE SumSeq(_)
SumSeq(q) == IF q = <<>> THEN 0 ELSE Head(q) + SumSeq(Tail(q))

RECURSIVE SortedPrices(_, _)
\* sorted(price_dict, reverse=reverse)
SortedPrices(S, reverse) ==
    IF S = {} THEN <<>>
    ELSE LET m == IF reverse THEN Max(S) ELSE Min(S)
         IN <<m>> \o SortedPrices(S \ {m}, reverse)

\* depth_side without the padding loop of lines 217-218
depth_side_unpadded(b, side, levels) ==
    LET price_dict == IF side = "bid" THEN b.bids ELSE b.asks
        sorted == SortedPrices(DOMAIN price_dict, side = "bid")
        n == Min2(levels, Len(sorted))
    IN [i \in 1..n |->
          <<sorted[i],
            SumSeq([j \in 1..Len(price_dict[sorted[i]]) |->
                      b.objs[price_dict[sorted[i]][j]].volume])>>]

depth_side(b, side, levels) ==
    LET price_dict == IF side = "bid" THEN b.bids ELSE b.asks
        sorted == SortedPrices(DOMAIN price_dict, side = "bid")
        n == Min2(levels, Len(sorted))
    IN [i \in 1..levels |->
          IF i <= n
          THEN <<sorted[i],
                 SumSeq([j \in 1..Len(price_dict[sorted[i]]) |->
                           b.objs[price_dict[sorted[i]][j]].volume])>>
          ELSE <<NaN, 0>>]

\* ---------------- round_price and the quotes (lines 44, 296-307) ----------
\* round(): half to even, of whole + num/den with 0 <= num < den
RoundHalfEven(whole, num, den) ==
    IF 2 * num < den THEN whole
    ELSE IF 2 * num > den THEN whole + 1
    ELSE IF whole % 2 = 0 THEN whole ELSE whole + 1

\* round_price(p) in ticks, for the price p = m/2 ticks + a/(4*UNIT) ticks
\* (m a mid price in half ticks, a the relative adjustment times m)
round_price(m, a) ==
    LET den == 4 * UNIT
        num == (m % 2) * 2 * UNIT + a
    IN RoundHalfEven((m \div 2) + (num \div den), num % den, den)

\* skew with the sign reversed: `skew = -INV_ALPHA * mm_inv`
skew_up(inv) == -(4 * INV_ALPHA * inv * TICKS_PER_UNIT)

\* 2*UNIT*half_spread (line 296)
half_spread(inv) == MM_BASE_SPREAD + INV_SPREAD_GAMMA * Abs(inv)
\* skew in ticks times 4*UNIT (line 297)
skew(inv) == 4 * INV_ALPHA * inv * TICKS_PER_UNIT

bid_price(m, inv) == round_price(m, -(m * half_spread(inv)) - skew(inv))
ask_price(m, inv) == round_price(m, m * half_spread(inv) - skew(inv))

\* the inventories at which the binary floating-point product
\* MM_BASE_VOL * scale falls just below the exact integer, so that int()
\* returns one less
FloatShort == {450, 800, 850, 900, 1400, 1450, 1650, 1700, 1750, 1800,
               1950, 2000, 2050, 2100}

\* int(MM_BASE_VOL * max(0.1, 1 - INV_VOL_BETA * exposure)) (lines 303-307)
quote_vol(exposure) ==
    LET scale == Max2(UNIT \div 10, UNIT - INV_VOL_BETA * exposure)
    IN ((MM_BASE_VOL * scale) \div UNIT)
       - (IF exposure \in FloatShort THEN 1 ELSE 0)

\* vol_ask shrunk by a long inventory, as vol_bid is
vol_ask_as_bid(inv) == quote_vol(Max2(0, inv))

vol_bid(inv) == quote_vol(Max2(0, inv))
vol_ask(inv) == quote_vol(Max2(0, -inv))

\* the inventory left as it is
clip_off(x, lo, hi) == x

\* np.clip(x, lo, hi)
clip(x, lo, hi) == IF x < lo THEN lo ELSE IF x > hi THEN hi ELSE x

\* ---------------- trend sign (lines 319-321) ------------------------------
LastN(q, n) == SubSeq(q, Max2(1, Len(q) - n + 1), Len(q))
Sign(x) == IF x > 0 THEN 1 ELSE IF x < 0 THEN -1 ELSE 0

\* np.sign(sma_now - sma_prev); the mean of an empty list is nan, whose sign
\* is neither positive nor negative
trend(price_hist) ==
    LET now == LastN(price_hist, TREND_WINDOW)
        prev == LastN(SubSeq(price_hist, 1, Len(price_hist) - 1), TREND_WINDOW)
    IN IF Len(prev) = 0 \/ Len(now) = 0 THEN 0
       ELSE Sign(SumSeq(now) * Len(prev) - SumSeq(prev) * Len(now))

\* ---------------- The tick loop (lines 265-450) ---------------------------
\* A run's state s: b (the book with the LimitOrder objects and the exception
\* raised, if any), LimitOrder_id (the class counter), t, pc, mid, mm_inv,
\* price_hist, events (the shuffled events not yet processed), bar (o, h, l,
\* traded, m_b, m_s, filled), and the per-tick series.
InitRun(first_id) ==
    [b |-> OrderBook, LimitOrder_id |-> first_id, t |-> 0, pc |-> "retract",
     mid |-> 2 * P0 * TICKS_PER_UNIT,
     price_hist |-> [i \in 1..TREND_WINDOW |-> 2 * P0 * TICKS_PER_UNIT],
     mm_inv |-> 0, events |-> <<>>,
     bar |-> [o |-> 0, h |-> 0, l |-> 0, traded |-> 0, m_b |-> 0, m_s |-> 0,
              filled |-> 0],
     ohlc |-> <<>>, volumes |-> <<>>, spread_series |-> <<>>,
     depth_bid_series |-> <<>>, depth_ask_series |-> <<>>]

\* an exception ends the script
Crashed(s) == IF s.b.exc # NoExc THEN [s EXCEPT !.pc = "crashed"] ELSE s

\* line 293
retract(s) ==
    Crashed([s EXCEPT
       !.b = remove_by_flag(s.b,
                 {oid \in s.b.orders : mm_flag(s.b.objs[oid], s.t)}, s.t),
       !.pc = "quote"])

\* the four event lists of line 333, concatenated
event_list(noise_buy, noise_sell, tf_buy, tf_sell) ==
    [i \in 1..noise_buy |-> "buy_noise"] \o [i \in 1..noise_sell |-> "sell_noise"]
    \o [i \in 1..tf_buy |-> "buy_tf"] \o [i \in 1..tf_sell |-> "sell_tf"]

\* random.shuffle(events) with the permutation sigma it draws
shuffle(events, sigma) ==
    IF Len(sigma) = Len(events)
    THEN [i \in 1..Len(events) |-> events[sigma[i]]]
    ELSE events

\* lines 296-339: post the two quotes, compute the trend sign, build and
\* shuffle the tick's events; noise_buy, noise_sell, tf_draw are the
\* pre-generated Poisson counts of tick t (lines 280-282, 324-328)
quote(s, noise_buy, noise_sell, tf_draw, sigma) ==
    LET id == s.LimitOrder_id
        lo_bid == [LimitOrder(id, "buy", bid_price(s.mid, s.mm_inv),
                              vol_bid(s.mm_inv), s.t) EXCEPT !.mm_tag = TRUE]
        lo_ask == [LimitOrder(id + 1, "sell", ask_price(s.mid, s.mm_inv),
                              vol_ask(s.mm_inv), s.t) EXCEPT !.mm_tag = TRUE]
        tr == trend(s.price_hist)
        tf_buy == IF tr > 0 THEN tf_draw ELSE 0
        tf_sell == IF tr < 0 THEN tf_draw ELSE 0
    IN Crashed([s EXCEPT
         !.b = add_limit(create(add_limit(create(s.b, lo_bid), lo_bid),
                                lo_ask), lo_ask),
         !.LimitOrder_id = id + 2,
         !.events = shuffle(event_list(noise_buy, noise_sell, tf_buy, tf_sell),
                            sigma),
         !.bar = [o |-> s.mid, h |-> s.mid, l |-> s.mid, traded |-> 0,
                  m_b |-> 0, m_s |-> 0, filled |-> s.bar.filled],
         !.pc = "events"])

\* price_update that keeps the previous mid unless both sides are present
price_update_both_only(mid, bb, ba) ==
    IF bb # None /\ ba # None THEN bb + ba ELSE mid

\* lines 375-384; prices are ticks, mid is in half ticks
price_update(mid, bb, ba) ==
    IF bb # None /\ ba # None THEN bb + ba
    ELSE IF bb # None THEN 2 * bb
    ELSE IF ba # None THEN 2 * ba
    ELSE mid

\* inventory_update with `mm_inv -= filled` on both sides
inventory_update_one_way(inv, side, filled) ==
    IF filled > 0 THEN inv - filled ELSE inv

\* lines 360-366: the inventory after a market order that filled `filled`
inventory_update(inv, side, filled) ==
    IF filled > 0
    THEN (IF side = "buy" THEN inv - filled ELSE inv + filled)
    ELSE inv

\* (event_vol_raw: the draw taken as it comes, without the floor of 1)
event_vol_raw(pvol) == pvol
\* vol = max(1, np.random.poisson(MU_VOL)) (lines 348, 353)
event_vol(pvol) == Max2(1, pvol)

\* lines 342-388, one event ev with its draws: pvol = np.random.poisson(MU),
\* u = random.uniform(0, DELTA) in units of 1e-5, mkt = (random.random() < pmkt)
process_event(s, pvol, u, mkt) ==
    LET ev == Head(s.events)
        side == IF ev \in {"buy_noise", "buy_tf"} THEN "buy" ELSE "sell"
        vol == event_vol(pvol)
        limit_p == IF side = "buy" THEN round_price(s.mid, -(2 * s.mid * u))
                   ELSE round_price(s.mid, 2 * s.mid * u)
        m == match_market(s.b, side, vol, s.t)
        filled == IF mkt THEN m.filled ELSE 0
        lo == LimitOrder(s.LimitOrder_id, side, limit_p, vol, s.t)
        b2 == IF mkt THEN m.b ELSE add_limit(create(s.b, lo), lo)
        inv == IF mkt THEN inventory_update(s.mm_inv, side, filled)
               ELSE s.mm_inv
        bb == best_bid(b2)
        ba == best_ask(b2)
        mid2 == price_update(s.mid, bb, ba)
    IN IF b2.exc # NoExc THEN Crashed([s EXCEPT !.b = b2])
       ELSE IF bb = Raises \/ ba = Raises
       THEN Crashed([s EXCEPT !.b = [b2 EXCEPT !.exc = "ValueError"]])
       ELSE [s EXCEPT
         !.b = b2,
         !.LimitOrder_id = IF mkt THEN @ ELSE @ + 1,
         !.events = Tail(@),
         !.mm_inv = clip(inv, -INV_MAX, INV_MAX),
         !.mid = mid2,
         !.bar = [@ EXCEPT !.filled = filled,
                           !.traded = IF mkt THEN @ + filled ELSE @,
                           !.m_b = IF mkt /\ filled > 0 /\ side = "buy"
                                   THEN @ + 1 ELSE @,
                           !.m_s = IF mkt /\ filled > 0 /\ side = "sell"
                                   THEN @ + 1 ELSE @,
                           !.h = Max2(@, mid2),
                           !.l = Min2(@, mid2)]]

\* lines 391-405: the spread and the top-5 depths of the tick
snapshot(s) ==
    LET bb == best_bid(s.b)
        ba == best_ask(s.b)
        depth_bid == depth_side(s.b, "bid", 5)
        depth_ask == depth_side(s.b, "ask", 5)
    IN IF bb = Raises \/ ba = Raises
       THEN Crashed([s EXCEPT !.b.exc = "ValueError"])
       ELSE [s EXCEPT
         !.spread_series = Append(@, IF bb # None /\ ba # None
                                     THEN ba - bb ELSE NaN),
         !.depth_bid_series = Append(@, [i \in 1..5 |-> depth_bid[i][2]]),
         !.depth_ask_series = Append(@, [i \in 1..5 |-> depth_ask[i][2]]),
         !.pc = "cancel"]

\* close_tick that takes the tick's spread and depths again from the book
\* left by cancel_random, as if line 407 came before line 391
close_tick_snapshot_last(s, draws) ==
    LET r == snapshot([s EXCEPT
                 !.b = cancel_random(s.b, draws, s.t),
                 !.spread_series = SubSeq(@, 1, Len(@) - 1),
                 !.depth_bid_series = SubSeq(@, 1, Len(@) - 1),
                 !.depth_ask_series = SubSeq(@, 1, Len(@) - 1)])
    IN Crashed([r EXCEPT
         !.ohlc = Append(@, <<s.bar.o, s.bar.h, s.bar.l, s.mid>>),
         !.volumes = Append(@, s.bar.traded),
         !.price_hist = LastN(Append(@, s.mid), TREND_WINDOW),
         !.t = @ + 1,
         !.pc = IF s.t + 1 < TICKS THEN "retract" ELSE "after"])

\* close_tick whose close is a mid price taken anew from the book that
\* cancel_random leaves, while mid itself stays as it was
close_tick_fresh_close(s, draws) ==
    LET b2 == cancel_random(s.b, draws, s.t)
        c == price_update(s.mid, best_bid(b2), best_ask(b2))
    IN Crashed([s EXCEPT
         !.b = b2,
         !.ohlc = Append(@, <<s.bar.o, s.bar.h, s.bar.l, c>>),
         !.volumes = Append(@, s.bar.traded),
         !.price_hist = LastN(Append(@, c), TREND_WINDOW),
         !.t = @ + 1,
         !.pc = IF s.t + 1 < TICKS THEN "retract" ELSE "after"])

\* close_tick that writes the tick's traded volume over the whole series
close_tick_rewrite(s, draws) ==
    Crashed([s EXCEPT
       !.b = cancel_random(s.b, draws, s.t),
       !.ohlc = Append(@, <<s.bar.o, s.bar.h, s.bar.l, s.mid>>),
       !.volumes = [i \in 1..(Len(@) + 1) |-> s.bar.traded],
       !.price_hist = LastN(Append(@, s.mid), TREND_WINDOW),
       !.t = @ + 1,
       !.pc = IF s.t + 1 < TICKS THEN "retract" ELSE "after"])

\* close_tick with cancel_random called at the tick after the one it ends
close_tick_late(s, draws) ==
    Crashed([s EXCEPT
       !.b = cancel_random(s.b, draws, s.t + 1),
       !.ohlc = Append(@, <<s.bar.o, s.bar.h, s.bar.l, s.mid>>),
       !.volumes = Append(@, s.bar.traded),
       !.price_hist = LastN(Append(@, s.mid), TREND_WINDOW),
       !.t = @ + 1,
       !.pc = IF s.t + 1 < TICKS THEN "retract" ELSE "after"])

\* lines 407-412: cancel, close the bar, next tick
close_tick(s, draws) ==
    Crashed([s EXCEPT
       !.b = cancel_random(s.b, draws, s.t),
       !.ohlc = Append(@, <<s.bar.o, s.bar.h, s.bar.l, s.mid>>),
       !.volumes = Append(@, s.bar.traded),
       !.price_hist = LastN(Append(@, s.mid), TREND_WINDOW),
       !.t = @ + 1,
       !.pc = IF s.t + 1 < TICKS THEN "retract" ELSE "after"])

\* lines 449-450: every order still active gets end_tick = TICKS
finish(s) ==
    [s EXCEPT
       !.b.objs = [id \in DOMAIN s.b.objs |->
                     IF s.b.objs[id].end_tick = None
                     THEN [s.b.objs[id] EXCEPT !.end_tick = TICKS]
                     ELSE s.b.objs[id]],
       !.pc = "done"]

\* ---------------- State ---------------------------------------------------
VARIABLES
    ob,                 \* the OrderBook: [bids, asks, orders]
    all_orders,         \* the LimitOrder objects created so far, by id
    LimitOrder_id,      \* LimitOrder._id
    raised,             \* the exception that ended the script, or NoExc
    t, pc,              \* the tick and the position in the script
    mid, mm_inv, price_hist,
    events,             \* the shuffled events of the tick, not yet processed
    bar,                \* o, h, l, traded, m_b, m_s, filled of the tick
    ohlc, volumes, spread_series, depth_bid_series, depth_ask_series,
    \* history of the calls, for stating the properties
    added_vol,          \* id -> the volume the order was added with
    filled_total,       \* sum of the volumes match_market returned
    removed_total,      \* sum of the volumes left in cancelled/retracted orders
    last,               \* the last call: [op, side, vol, filled, ids, n]
    used,               \* [events, cancels]: what the run has consumed so far
    run2,               \* a second run fed the same draws (SpecDet only)
    cfg,                \* the probabilities the script is configured with
    \* the analytics after the loop (lines 414-461)
    liquidity,          \* the liquidity series the resilience loop reads
    resilience_times,   \* np.full(TICKS, np.nan), filled by the loop
    rt,                 \* the tick the resilience loop is at
    close_prices,       \* the close prices the rolling Hurst loop reads
    hurst_values,       \* np.full_like(close_prices, np.nan), filled by it
    idx                 \* the index the rolling Hurst loop is at

prog == <<ob, all_orders, LimitOrder_id, raised, t, pc, mid, mm_inv, price_hist,
          events, bar, ohlc, volumes, spread_series, depth_bid_series,
          depth_ask_series>>
hist == <<added_vol, filled_total, removed_total, last, used>>
post == <<liquidity, resilience_times, rt, close_prices, hurst_values, idx>>
vars == <<prog, hist, run2, cfg, post>>

\* the run's state as one value, and back
Cur ==
    [b |-> [bids |-> ob.bids, asks |-> ob.asks, orders |-> ob.orders,
            objs |-> all_orders, exc |-> raised],
     LimitOrder_id |-> LimitOrder_id, t |-> t, pc |-> pc, mid |-> mid,
     price_hist |-> price_hist, mm_inv |-> mm_inv, events |-> events,
     bar |-> bar, ohlc |-> ohlc, volumes |-> volumes,
     spread_series |-> spread_series, depth_bid_series |-> depth_bid_series,
     depth_ask_series |-> depth_ask_series]

Assign(s) ==
    /\ ob' = [bids |-> s.b.bids, asks |-> s.b.asks, orders |-> s.b.orders]
    /\ all_orders' = s.b.objs
    /\ raised' = s.b.exc
    /\ LimitOrder_id' = s.LimitOrder_id
    /\ t' = s.t
    /\ pc' = s.pc
    /\ mid' = s.mid
    /\ price_hist' = s.price_hist
    /\ mm_inv' = s.mm_inv
    /\ events' = s.events
    /\ bar' = s.bar
    /\ ohlc' = s.ohlc
    /\ volumes' = s.volumes
    /\ spread_series' = s.spread_series
    /\ depth_bid_series' = s.depth_bid_series
    /\ depth_ask_series' = s.depth_ask_series

\* the call history after a call that led to the book b2
Track(b2, op, side, vol, filled, ids) ==
    /\ added_vol' = [id \in DOMAIN b2.objs |->
                       IF id \in DOMAIN added_vol THEN added_vol[id]
                       ELSE b2.objs[id].volume]
    /\ filled_total' = filled_total + filled
    /\ removed_total' = removed_total +
           (IF op \in {"cancel_random", "remove_by_flag"}
            THEN SumOver(ob.orders \ b2.orders, [id \in DOMAIN b2.objs |->
                                                   b2.objs[id].volume])
            ELSE 0)
    /\ last' = [op |-> op, side |-> side, vol |-> vol, filled |-> filled,
                ids |-> ids, n |-> last.n + 1]

\* the state at the head of the loop (lines 265-282), ids starting at first_id
InitProg(s) ==
    /\ ob = [bids |-> s.b.bids, asks |-> s.b.asks, orders |-> s.b.orders]
    /\ all_orders = s.b.objs
    /\ raised = s.b.exc
    /\ LimitOrder_id = s.LimitOrder_id
    /\ t = s.t
    /\ pc = s.pc
    /\ mid = s.mid
    /\ price_hist = s.price_hist
    /\ mm_inv = s.mm_inv
    /\ events = s.events
    /\ bar = s.bar
    /\ ohlc = s.ohlc
    /\ volumes = s.volumes
    /\ spread_series = s.spread_series
    /\ depth_bid_series = s.depth_bid_series
    /\ depth_ask_series = s.depth_ask_series

InitHist ==
    /\ added_vol = <<>>
    /\ filled_total = 0
    /\ removed_total = 0
    /\ last = [op |-> "init", side |-> "none", vol |-> 0, filled |-> 0,
               ids |-> {}, n |-> 0]
    /\ used = [events |-> 0, cancels |-> 0]

\* the analytics have not started: no series yet
InitPost ==
    /\ liquidity = <<>>
    /\ resilience_times = <<>>
    /\ rt = 1
    /\ close_prices = <<>>
    /\ hurst_values = <<>>
    /\ idx = 0

\* the parameters of lines 23, 24 and 29 as the script sets them
ScriptConfig ==
    [P_MARKET_BUY |-> P_MARKET_BUY, P_MARKET_SELL |-> P_MARKET_SELL,
     P_CANCEL |-> P_CANCEL]

Init ==
    /\ InitProg(InitRun(0))
    /\ InitHist
    /\ run2 = InitRun(0)
    /\ cfg = ScriptConfig
    /\ InitPost

\* ---------------- The draws the model enumerates ---------------------------
PoissonVols == {0, BigVol}          \* np.random.poisson(MU_VOL_*)
Uniforms == {0, DELTA}                 \* random.uniform(0, DELTA)
Perms(n) == {f \in [1..n -> 1..n] : \A i, j \in 1..n : f[i] = f[j] => i = j}
Draws(S, k) == {D \in SUBSET S : Cardinality(D) <= k}

\* ---------------- The tick loop as actions --------------------------------
Step(s, op, side, vol, filled, ids) ==
    /\ Assign(s)
    /\ Track(s.b, op, side, vol, filled, ids)
    /\ UNCHANGED <<cfg, post>>

Retract ==
    /\ pc = "retract"
    /\ LET s == retract(Cur)
       IN Step(s, "remove_by_flag", "none", 0, 0, ob.orders \ s.b.orders)
    /\ UNCHANGED used

Quote(noise_buy, noise_sell, tf_draw, sigma) ==
    /\ pc = "quote"
    /\ LET s == quote(Cur, noise_buy, noise_sell, tf_draw, sigma)
       IN /\ Step(s, "quote", "none", 0, 0, s.b.orders \ ob.orders)
          /\ used' = [used EXCEPT !.events = @ + Len(s.events)]

ProcessEvent(pvol, u, mkt) ==
    /\ pc = "events"
    /\ events # <<>>
    /\ LET s == process_event(Cur, pvol, u, mkt)
           side == IF Head(events) \in {"buy_noise", "buy_tf"}
                   THEN "buy" ELSE "sell"
       IN Step(s, IF mkt THEN "match_market" ELSE "add_limit", side,
               event_vol(pvol), s.bar.filled, s.b.orders \ ob.orders)
    /\ UNCHANGED used

Snapshot ==
    /\ pc = "events"
    /\ events = <<>>
    /\ Step(snapshot(Cur), "snapshot", "none", 0, 0, {})
    /\ UNCHANGED used

CloseTick(draws) ==
    /\ pc = "cancel"
    /\ LET s == close_tick(Cur, draws)
       IN Step(s, "cancel_random", "none", 0, 0, draws)
    /\ used' = [used EXCEPT !.cancels = @ + Cardinality(draws)]

Finish ==
    /\ pc = "after"
    /\ Step(finish(Cur), "finish", "none", 0, 0, {})
    /\ UNCHANGED used

\* what is left of the run's budget of events and cancellations
Budget == MaxEvents - used.events - used.cancels

TickLoop ==
    \/ Retract
    \/ \E noise_buy, noise_sell, tf_draw \in 0..MaxEvents :
         /\ Budget >= noise_buy + noise_sell + tf_draw
         /\ \E sigma \in Perms(noise_buy + noise_sell + tf_draw) :
              Quote(noise_buy, noise_sell, tf_draw, sigma)
    \/ \E pvol \in PoissonVols, u \in Uniforms, mkt \in BOOLEAN :
         ProcessEvent(pvol, u, mkt)
    \/ Snapshot
    \/ \E draws \in Draws(ob.orders, Budget) : CloseTick(draws)
    \/ Finish

Next == TickLoop /\ UNCHANGED run2

Spec == Init /\ [][Next]_vars

\* ---------------- A free-standing OrderBook -------------------------------
\* Any sequence of add_limit, match_market, cancel_random and remove_by_flag
\* calls on one OrderBook, with arbitrary arguments from small sets.
BookPrices == {P0 * TICKS_PER_UNIT - 1, P0 * TICKS_PER_UNIT + 1}
BookVols == 1..MaxVol
ReqVols == 1..(2 * MaxVol + 1)
Sides == {"buy", "sell"}

BookStep(b, op, side, vol, filled, ids) ==
    /\ last.n < MaxOps
    /\ Step([Cur EXCEPT !.b = b, !.LimitOrder_id = Max(DOMAIN b.objs \cup {-1}) + 1],
            op, side, vol, filled, ids)
    /\ UNCHANGED <<used, run2>>

BookAdd(side, price, volume) ==
    LET order == LimitOrder(LimitOrder_id, side, price, volume, t)
    IN BookStep(add_limit(create(Cur.b, order), order), "add_limit", side,
                volume, 0, {order.id})

BookMatch(side, vol) ==
    LET m == match_market(Cur.b, side, vol, t)
    IN BookStep(m.b, "match_market", side, vol, m.filled,
                ob.orders \ m.b.orders)

BookCancel(draws) ==
    BookStep(cancel_random(Cur.b, draws, t), "cancel_random", "none", 0, 0,
             draws)

BookRemoveByFlag(flagged) ==
    BookStep(remove_by_flag(Cur.b, flagged, t), "remove_by_flag", "none", 0, 0,
             flagged)

NextBook ==
    \/ \E side \in Sides, price \in BookPrices, volume \in BookVols :
         BookAdd(side, price, volume)
    \/ \E side \in Sides, vol \in ReqVols : BookMatch(side, vol)
    \/ \E draws \in Draws(ob.orders, MaxCancel) : BookCancel(draws)
    \/ \E flagged \in Draws(ob.orders, MaxCancel) : BookRemoveByFlag(flagged)

SpecBook == Init /\ [][NextBook]_vars

\* ---------------- Two runs fed the same draws ------------------------------
\* run2 is a second run of the script in a process whose LimitOrder._id was
\* left at IdOffset; it is fed the draws of the first run.  cancel_random
\* consumes one random.random() per order in registry order, so the same
\* draws hit the orders at the same positions of the registry.
SameDraws(draws) ==
    LET mine == SortedSeq(ob.orders)
        theirs == SortedSeq(run2.b.orders)
    IN {theirs[i] : i \in {j \in 1..Len(theirs) :
                             j <= Len(mine) /\ mine[j] \in draws}}

InStep(s2) == run2' = IF run2.pc = pc /\ Len(run2.events) = Len(events)
                      THEN s2 ELSE run2

InitDet ==
    /\ InitProg(InitRun(0))
    /\ InitHist
    /\ run2 = InitRun(IdOffset)
    /\ cfg = ScriptConfig
    /\ InitPost

NextDet ==
    \/ Retract /\ InStep(retract(run2))
    \/ \E noise_buy, noise_sell, tf_draw \in 0..MaxEvents :
         /\ Budget >= noise_buy + noise_sell + tf_draw
         /\ \E sigma \in Perms(noise_buy + noise_sell + tf_draw) :
              /\ Quote(noise_buy, noise_sell, tf_draw, sigma)
              /\ InStep(quote(run2, noise_buy, noise_sell, tf_draw, sigma))
    \/ \E pvol \in PoissonVols, u \in Uniforms, mkt \in BOOLEAN :
         ProcessEvent(pvol, u, mkt) /\ InStep(process_event(run2, pvol, u, mkt))
    \/ Snapshot /\ InStep(snapshot(run2))
    \/ \E draws \in Draws(ob.orders, Budget) :
         CloseTick(draws) /\ InStep(close_tick(run2, SameDraws(draws)))
    \/ Finish /\ InStep(finish(run2))

SpecDet == InitDet /\ [][NextDet]_vars

\* ---------------- The books depth_side is given ----------------------------
\* depth_side reads a book and changes nothing: it is applied to every book
\* that DepthOps calls of the four operations build.
NextDepth == last.n < DepthOps /\ NextBook

SpecDepth == Init /\ [][NextDepth]_vars

\* ---------------- add_limit with any volume --------------------------------
\* The calls of SpecBook, with add_limit also given orders of volume 0 and -1.
AnyVols == {-1, 0, 1}

NextBookAny ==
    \/ \E side \in Sides, price \in BookPrices, volume \in AnyVols :
         BookAdd(side, price, volume)
    \/ \E side \in Sides, vol \in ReqVols : BookMatch(side, vol)
    \/ \E draws \in Draws(ob.orders, MaxCancel) : BookCancel(draws)
    \/ \E flagged \in Draws(ob.orders, MaxCancel) : BookRemoveByFlag(flagged)

SpecBookAny == Init /\ [][NextBookAny]_vars

\* ---------------- Runs under other configurations --------------------------
\* The script reads P_MARKET_BUY, P_MARKET_SELL and P_CANCEL only in the
\* comparisons random.random() < pmkt (line 357) and random.random() < p
\* (line 176).  Here the run starts from any configuration of Configs and the
\* comparisons are made on the draws r of random.random(), in units of 1e-5.
RandomUnits == {0, UNIT - 1}           \* random.random(), in [0, 1)
Configs ==
    {ScriptConfig,
     [ScriptConfig EXCEPT !.P_CANCEL = -P_CANCEL],
     [ScriptConfig EXCEPT !.P_MARKET_BUY = UNIT + 1],
     [ScriptConfig EXCEPT !.P_MARKET_SELL = -1]}

\* pmkt of the event ev (lines 349, 354)
pmkt(c, ev) ==
    IF ev \in {"buy_noise", "buy_tf"} THEN c.P_MARKET_BUY ELSE c.P_MARKET_SELL

\* the orders for which random.random() < p, rs the draw made for each order
hit(orders, rs, p) == {oid \in orders : rs[oid] < p}

InitConfig ==
    /\ InitProg(InitRun(0))
    /\ InitHist
    /\ run2 = InitRun(0)
    /\ cfg \in Configs
    /\ InitPost

NextConfig ==
    \/ Retract /\ UNCHANGED run2
    \/ \E noise_buy, noise_sell, tf_draw \in 0..MaxEvents :
         /\ Budget >= noise_buy + noise_sell + tf_draw
         /\ \E sigma \in Perms(noise_buy + noise_sell + tf_draw) :
              Quote(noise_buy, noise_sell, tf_draw, sigma)
         /\ UNCHANGED run2
    \/ \E pvol \in PoissonVols, u \in Uniforms, r \in RandomUnits :
         /\ pc = "events"
         /\ events # <<>>
         /\ ProcessEvent(pvol, u, r < pmkt(cfg, Head(events)))
         /\ UNCHANGED run2
    \/ Snapshot /\ UNCHANGED run2
    \/ \E rs \in [ob.orders -> RandomUnits] :
         /\ Cardinality(hit(ob.orders, rs, cfg.P_CANCEL)) <= Budget
         /\ CloseTick(hit(ob.orders, rs, cfg.P_CANCEL))
         /\ UNCHANGED run2
    \/ Finish /\ UNCHANGED run2

SpecConfig == InitConfig /\ [][NextConfig]_vars

\* ---------------- Resilience times (lines 437-446) -------------------------
\* The loop reads nothing but the liquidity series, so it is run here on
\* liquidity series of its own: every series of 1..MaxSeries values, and long
\* series with one dip.  Tick t of the script is index t + 1 of a series.
\* liquidity[t] < thresh * liquidity[t-1], thresh = 0.9 (exact for the
\* values drawn: 0.9 * 5, 0.9 * 10 are exact in binary floating point and
\* 0.9 * 9 is not near any of them)
shock(liq, tk) == 10 * liq[tk + 1] < THRESH_TENTHS * liq[tk]
\* liquidity[t + tau] >= thresh * baseline, baseline = liquidity[t - 1]
recovered(liq, tk, tau) == 10 * liq[tk + tau + 1] >= THRESH_TENTHS * liq[tk]

RECURSIVE scan(_, _, _, _)
\* lines 442-445: for tau in range(tau, stop), the first tau that recovered
scan(liq, tk, tau, stop) ==
    IF tau >= stop THEN NaN
    ELSE IF recovered(liq, tk, tau) THEN tau
    ELSE scan(liq, tk, tau + 1, stop)

\* resilience_at with the test `liquidity[t] < liquidity[t-1]`: any fall of
\* the liquidity counts as a shock
resilience_at_any_fall(liq, tk) ==
    IF liq[tk + 1] < liq[tk]
    THEN scan(liq, tk, 1, Min2(HORIZON, Len(liq) - tk))
    ELSE NaN

\* lines 440-446: the body of the outer loop at tick tk
resilience_at(liq, tk) ==
    IF shock(liq, tk)
    THEN scan(liq, tk, 1, Min2(HORIZON, Len(liq) - tk))
    ELSE NaN

LiqVals == {5, 9, 10}
ShortSeries == UNION {[1..n -> LiqVals] : n \in 1..MaxSeries}
\* liquidity 10 up to tick s - 1, 5 for the k ticks from s on, then rec
Dip(n, s, k, rec) ==
    [i \in 1..n |-> IF i <= s THEN 10 ELSE IF i <= s + k THEN 5 ELSE rec]
LongSeries ==
    {Dip(n, s, k, rec) : n \in (HORIZON + 2)..(HORIZON + MaxSeries - 1),
                         s \in 1..2,
                         k \in {1, HORIZON - 1, HORIZON, HORIZON + 1},
                         rec \in {9, 10}}

InitRes ==
    /\ InitProg(InitRun(0))
    /\ InitHist
    /\ run2 = InitRun(0)
    /\ cfg = ScriptConfig
    /\ liquidity \in ShortSeries \cup LongSeries
    /\ resilience_times = [i \in 1..Len(liquidity) |-> NaN]
    /\ rt = 1
    /\ close_prices = <<>>
    /\ hurst_values = <<>>
    /\ idx = 0

\* one pass of `for t in range(1, TICKS)`
ResilienceStep ==
    /\ rt < Len(liquidity)
    /\ resilience_times' =
          [resilience_times EXCEPT ![rt + 1] = resilience_at(liquidity, rt)]
    /\ rt' = rt + 1
    /\ UNCHANGED <<prog, hist, run2, cfg, liquidity, close_prices,
                   hurst_values, idx>>

SpecRes == InitRes /\ [][ResilienceStep]_vars

\* ---------------- Rolling Hurst exponent (lines 222-262, 457-461) ----------
\* The loop reads nothing but the close prices, so it is run here on series
\* of close prices of its own.  Of a chunk only `S > 0` matters for whether
\* the result is NaN, and of the fit only that it returns a number.
\*
\* chunk_sizes (lines 235-236) for the rolling call, max_chunks = 100 points
\* between min_chunk = 20 and N // 2 <= 50: the points are less than 1 apart,
\* so every integer from min_chunk to N // 2 - 1 is the floor of one of them.
\* The end points are 10 ** log10(k), which floating point returns just below
\* or just above k: lo_down says the first point fell below min_chunk,
\* hi_up that the last one reached N // 2.
chunk_sizes(N, min_chunk, lo_down, hi_up) ==
    IF N \div 2 = min_chunk
    THEN {IF lo_down THEN min_chunk - 1 ELSE min_chunk}
    ELSE (IF lo_down THEN {min_chunk - 1} ELSE {})
         \cup (min_chunk..(N \div 2 - 1))
         \cup (IF hi_up THEN {N \div 2} ELSE {})

\* all of series[a..b] are the same value
constant(series, a, b) == \A i \in a..b : series[i] = series[a]

\* S > 0 for chunk i of the given size (lines 245-253).  np.std of a chunk
\* of equal values is 0 only when the floating-point mean of the chunk is
\* exactly that value (`exact`); otherwise it is a tiny positive number.
positive_std(series, size, i, exact) ==
    ~constant(series, i * size + 1, (i + 1) * size) \/ ~exact

\* len(rs_vals) > 0 for a chunk size (lines 242-255)
usable(series, size, exact) ==
    \E i \in 0..(Len(series) \div size - 1) :
        positive_std(series, size, i, exact)

\* hurst_rs(series, min_chunk, max_chunks = 100): NaN or a fitted slope
hurst_rs(series, min_chunk, exact, lo_down, hi_up) ==
    LET N == Len(series)
        log_n == {size \in chunk_sizes(N, min_chunk, lo_down, hi_up) :
                     usable(series, size, exact)}
    IN IF N < min_chunk * 2 THEN NaN
       ELSE IF Cardinality(log_n) < 2 THEN NaN
       ELSE H_FIT

\* close prices (in half ticks) that alternate between two values, but stay
\* at one value for the r ticks after tick a
Flat(n, a, r) ==
    [i \in 1..n |-> IF a < i /\ i <= a + r THEN 2 * P0 * TICKS_PER_UNIT
                    ELSE 2 * P0 * TICKS_PER_UNIT + 1 + (i % 2)]
CloseSeries ==
    {Flat(n, a, r) : n \in (WINDOW - 1)..(WINDOW + MaxSeries - 2),
                     a \in {0, 1, MIN_CHUNK, 2 * MIN_CHUNK},
                     r \in {0, MIN_CHUNK - 1, MIN_CHUNK, MIN_CHUNK + 1,
                            WINDOW - 2, WINDOW + MaxSeries}}

InitHurst ==
    /\ InitProg(InitRun(0))
    /\ InitHist
    /\ run2 = InitRun(0)
    /\ cfg = ScriptConfig
    /\ liquidity = <<>>
    /\ resilience_times = <<>>
    /\ rt = 1
    /\ close_prices \in CloseSeries
    /\ hurst_values = [i \in 1..Len(close_prices) |-> NaN]
    /\ idx = WINDOW

\* close_prices[idx - WINDOW : idx]
segment(i) == SubSeq(close_prices, i - WINDOW + 1, i)

\* one pass of `for idx in range(WINDOW, len(close_prices) + 1)`
HurstStep(exact, lo_down, hi_up) ==
    /\ idx >= WINDOW
    /\ idx <= Len(close_prices)
    /\ hurst_values' =
          [hurst_values EXCEPT
             ![idx] = hurst_rs(segment(idx), MIN_CHUNK, exact, lo_down, hi_up)]
    /\ idx' = idx + 1
    /\ UNCHANGED <<prog, hist, run2, cfg, liquidity, resilience_times, rt,
                   close_prices>>

NextHurst == \E exact, lo_down, hi_up \in BOOLEAN : HurstStep(exact, lo_down, hi_up)

SpecHurst == InitHurst /\ [][NextHurst]_vars

\* ---------------- The quotes at every inventory (lines 296-314) ------------
\* The quotes depend on nothing but mid and mm_inv.  Here the posting of the
\* quotes is run once from the head of a tick with the mid at one of a few
\* prices around the initial price (in half ticks) and the inventory at any
\* value of [-INV_MAX, INV_MAX].
QuoteMids == {2 * P0 * TICKS_PER_UNIT + d : d \in {-30, 0, 1, 30}}

InitQuote ==
    /\ \E m \in QuoteMids, inv \in (-INV_MAX)..INV_MAX :
          InitProg([InitRun(0) EXCEPT !.mid = m, !.mm_inv = inv, !.pc = "quote"])
    /\ InitHist
    /\ run2 = InitRun(0)
    /\ cfg = ScriptConfig
    /\ InitPost

NextQuote == Quote(0, 0, 0, <<>>) /\ UNCHANGED run2

SpecQuote == InitQuote /\ [][NextQuote]_vars

\* ---------------- The trend sign over the ticks (lines 319-333, 408-412) ----
\* The trend sign reads nothing but price_hist, and price_hist takes nothing
\* from a tick but its close.  Here the ticks are run on closes drawn freely
\* (in half ticks, around the initial price): a tick computes the trend sign
\* and builds its trend-follower events as quote does (no noise trader
\* arrives), its events leave the mid at the close c, and the close is
\* appended to price_hist as close_tick does.  close_prices collects the
\* closes (line 452).
TrendCloses == {2 * P0 * TICKS_PER_UNIT + d : d \in {-1, 0, 1}}
TfDraws == {0, 2}                      \* tf_raw_arr[t]

TrendTick(tf_draw, c) ==
    /\ t < MaxSeries
    /\ events' = quote(Cur, 0, 0, tf_draw, [i \in 1..tf_draw |-> i]).events
    /\ mid' = c
    /\ price_hist' = close_tick([Cur EXCEPT !.mid = c], {}).price_hist
    /\ close_prices' = Append(close_prices, c)
    /\ t' = t + 1
    /\ last' = [op |-> "trend", side |-> "none", vol |-> tf_draw, filled |-> 0,
                ids |-> {}, n |-> last.n + 1]
    /\ UNCHANGED <<ob, all_orders, LimitOrder_id, raised, pc, mm_inv, bar, ohlc,
                   volumes, spread_series, depth_bid_series, depth_ask_series,
                   added_vol, filled_total, removed_total, used, run2, cfg,
                   liquidity, resilience_times, rt, hurst_values, idx>>

NextTrend == \E tf_draw \in TfDraws, c \in TrendCloses : TrendTick(tf_draw, c)

SpecTrend == Init /\ [][NextTrend]_vars

\* ---------------- Properties ----------------------------------------------
Vol(id) == all_orders[id].volume
VolAfter(id) == all_orders'[id].volume
ActiveVolume(ids) == SumOver(ids, [id \in DOMAIN all_orders |-> Vol(id)])
OnSide(side) == {id \in ob.orders : all_orders[id].side = side}
Opposite(side) == IF side = "buy" THEN "sell" ELSE "buy"
\* every id queued at some level of book, with repetitions counted
Occurrences(book, id) ==
    SumOver(DOMAIN book,
            [p \in DOMAIN book |->
               Cardinality({i \in 1..Len(book[p]) : book[p][i] = id})])
Queued(book) == UNION {Range(book[p]) : p \in DOMAIN book}
\* the step is a call of op
Called(op) == last'.n = last.n + 1 /\ last'.op = op
\* the call reduced the volume of the active order id
Reduced(id) == VolAfter(id) < Vol(id)
PartlyFilled(id) == id \in ob.orders /\ 0 < Vol(id) /\ Vol(id) < added_vol[id]
FullyFilled(id) == id \in DOMAIN all_orders /\ id \notin ob.orders /\ Vol(id) = 0

\* C1: the volume ever added equals the volume returned as filled, plus the
\* volume left in the orders that were cancelled or retracted, plus the
\* volume of the orders still in the registry.
VolumeConservation ==
    SumOver(DOMAIN added_vol, added_vol)
        = filled_total + removed_total + ActiveVolume(ob.orders)

\* a fill, a cancellation and an order still resting after a partial fill
VolumeConservationWitness ==
    /\ filled_total > 0
    /\ removed_total > 0
    /\ \E id \in ob.orders : PartlyFilled(id)

\* C2: a match_market call reduces an order only if every order added
\* earlier at the same price on the same side is fully filled and removed
\* by the end of the call.
TimePriority ==
    [][Called("match_market") =>
         \A A, B \in ob.orders :
            ( /\ all_orders[A].side = all_orders[B].side
              /\ all_orders[A].price = all_orders[B].price
              /\ A < B
              /\ Reduced(B) )
            => (A \notin ob.orders' /\ VolAfter(A) = 0)]_vars

\* the last market order filled A entirely and B, added later at the same
\* price, only in part
TimePriorityWitness ==
    /\ last.op = "match_market"
    /\ \E A \in last.ids, B \in ob.orders :
          /\ FullyFilled(A)
          /\ PartlyFilled(B)
          /\ A < B
          /\ all_orders[A].side = all_orders[B].side
          /\ all_orders[A].price = all_orders[B].price

\* C3: a match_market call reduces an order on the consumed side only if
\* every order at a strictly better price (lower ask for a buy, higher bid
\* for a sell) is fully filled and removed by the end of the call.
Better(side, p, q) == IF side = "buy" THEN p < q ELSE p > q
PricePriority ==
    [][Called("match_market") =>
         \A A, B \in OnSide(Opposite(last'.side)) :
            ( /\ Better(last'.side, all_orders[A].price, all_orders[B].price)
              /\ Reduced(B) )
            => (A \notin ob.orders' /\ VolAfter(A) = 0)]_vars

\* the last market order took the whole best level and part of the next
PricePriorityWitness ==
    /\ last.op = "match_market"
    /\ \E A \in last.ids, B \in OnSide(Opposite(last.side)) :
          /\ FullyFilled(A)
          /\ PartlyFilled(B)
          /\ all_orders[A].side = all_orders[B].side
          /\ Better(last.side, all_orders[A].price, all_orders[B].price)

\* C4: match_market(side, requested, t) with requested > 0 returns
\* min(requested, V), V the volume resting on the opposite side before the
\* call; with requested > V that side ends with no level and no order, and
\* with requested <= V its resting volume ends as V - requested.
FillAmount ==
    [][Called("match_market") /\ last'.vol > 0 =>
         LET opp == Opposite(last'.side)
             V == ActiveVolume(OnSide(opp))
             after == {id \in ob.orders' : all_orders'[id].side = opp}
             Vafter == SumOver(after, [id \in DOMAIN all_orders' |-> VolAfter(id)])
         IN /\ last'.filled = Min2(last'.vol, V)
            /\ last'.vol > V => /\ after = {}
                                /\ DOMAIN SideBook(ob', opp) = {}
            /\ last'.vol <= V => Vafter = V - last'.vol]_vars

\* the last market order asked for more than was resting and emptied the side
FillAmountWitness ==
    /\ last.op = "match_market"
    /\ 0 < last.filled
    /\ last.filled < last.vol
    /\ Cardinality(last.ids) >= 2
    /\ OnSide(Opposite(last.side)) = {}

\* C5: every id of the registry is queued exactly once, at its own price on
\* its own side, and every queued id is in the registry.
RegistryQueueConsistency ==
    /\ \A id \in ob.orders :
          /\ Occurrences(ob.bids, id) + Occurrences(ob.asks, id) = 1
          /\ all_orders[id].price \in DOMAIN SideBook(ob, all_orders[id].side)
          /\ id \in Range(SideBook(ob, all_orders[id].side)[all_orders[id].price])
    /\ Queued(ob.bids) \cup Queued(ob.asks) \subseteq ob.orders

\* an order has left the book by a full fill and two others share a level
RegistryQueueWitness ==
    /\ \E id \in DOMAIN all_orders : FullyFilled(id)
    /\ \E side \in Sides : \E p \in DOMAIN SideBook(ob, side) :
          Len(SideBook(ob, side)[p]) >= 2

\* C6: no price level has an empty queue.
NoEmptyLevel ==
    /\ \A p \in DOMAIN ob.bids : ob.bids[p] # <<>>
    /\ \A p \in DOMAIN ob.asks : ob.asks[p] # <<>>

\* the last call took the last order of a level while another level remains
NoEmptyLevelWitness ==
    /\ last.op \in {"match_market", "cancel_random", "remove_by_flag"}
    /\ \E id \in last.ids :
          /\ id \in DOMAIN all_orders
          /\ id \notin ob.orders
          /\ all_orders[id].price \notin
                 DOMAIN SideBook(ob, all_orders[id].side)
          /\ DOMAIN SideBook(ob, all_orders[id].side) # {}

\* C7: in a run of the script every order of the registry has volume > 0,
\* and an order whose volume is 0 is in neither the registry nor a queue.
PositiveActiveVolume ==
    /\ \A id \in ob.orders : Vol(id) > 0
    /\ \A id \in DOMAIN all_orders :
          Vol(id) = 0 =>
             id \notin ob.orders \cup Queued(ob.bids) \cup Queued(ob.asks)

\* one order rests with a positive remainder, another was filled to 0
PositiveActiveVolumeWitness ==
    /\ \E id \in ob.orders : PartlyFilled(id)
    /\ \E id \in DOMAIN all_orders : FullyFilled(id)

\* C8: after every processed event the market-maker inventory lies in
\* [-INV_MAX, INV_MAX].
InventoryBound == -INV_MAX <= mm_inv /\ mm_inv <= INV_MAX

\* a single fill larger than the whole range to the cap was clamped
InventoryBoundWitness ==
    /\ last.op = "match_market"
    /\ last.filled > INV_MAX
    /\ mm_inv \in {-INV_MAX, INV_MAX}

\* C10: an empty side or book is never an error: best_bid/best_ask are None
\* on an empty side; match_market against an empty opposite side returns 0
\* and changes nothing; cancel_random and remove_by_flag on an empty book
\* change nothing; a tick whose book lacks a side records NaN as its spread;
\* and the script never ends with an exception.
EmptySide(side) == DOMAIN SideBook(ob, side) = {}
BookUnchanged == ob' = ob /\ all_orders' = all_orders
EmptyBookNoError ==
    /\ [](/\ raised = NoExc
          /\ pc # "crashed"
          /\ EmptySide("buy") => best_bid(Cur.b) = None
          /\ EmptySide("sell") => best_ask(Cur.b) = None)
    /\ [][/\ (Called("match_market") /\ EmptySide(Opposite(last'.side)))
               => (last'.filled = 0 /\ BookUnchanged)
          /\ ( /\ Called("cancel_random") \/ Called("remove_by_flag")
               /\ ob.orders = {} /\ EmptySide("buy") /\ EmptySide("sell") )
               => BookUnchanged
          /\ (Called("snapshot") /\ (EmptySide("buy") \/ EmptySide("sell")))
               => /\ Len(spread_series') = Len(spread_series) + 1
                  /\ spread_series'[Len(spread_series')] = NaN]_vars

\* both quotes were filled entirely, the tick recorded NaN and cancel_random
\* then ran on the empty book
EmptyBookWitness ==
    /\ last.op = "cancel_random"
    /\ raised = NoExc
    /\ DOMAIN all_orders # {}
    /\ \A id \in DOMAIN all_orders : FullyFilled(id)
    /\ EmptySide("buy") /\ EmptySide("sell")
    /\ spread_series[Len(spread_series)] = NaN

\* C9: a run fed the same draws passes through the same states and records
\* the same series whatever LimitOrder._id it starts from: the second run is
\* the first one with every order id shifted by the offset.
ShiftSeq(q, k) == [i \in 1..Len(q) |-> q[i] + k]
ShiftBook(book, k) == [p \in DOMAIN book |-> ShiftSeq(book[p], k)]
ShiftIds(s, k) ==
    [s EXCEPT
       !.LimitOrder_id = @ + k,
       !.b = [bids |-> ShiftBook(s.b.bids, k),
              asks |-> ShiftBook(s.b.asks, k),
              orders |-> {id + k : id \in s.b.orders},
              objs |-> [id \in {i + k : i \in DOMAIN s.b.objs} |->
                          [s.b.objs[id - k] EXCEPT !.id = id]],
              exc |-> s.b.exc]]
Determinism == run2 = ShiftIds(Cur, IdOffset)

\* both runs are complete, after fills, a retraction and a cancellation
DeterminismWitness ==
    /\ pc = "done"
    /\ run2.pc = "done"
    /\ run2.LimitOrder_id # LimitOrder_id
    /\ filled_total > 0
    /\ used.cancels > 0
    /\ \E id \in DOMAIN all_orders :
          all_orders[id].mm_tag /\ all_orders[id].end_tick = 1
    /\ Len(ohlc) = TICKS

\* C11: add_limit rejects an order of volume 0 or less: the call leaves the
\* price maps and the registry as they were, so that no order of volume 0 or
\* less ever rests in the book.
AddLimitRejects ==
    /\ [][(Called("add_limit") /\ last'.vol <= 0) => ob' = ob]_vars
    /\ [](\A id \in ob.orders : Vol(id) > 0)

\* add_limit has just queued and registered an order of volume 0 or less
NonPositiveVolumeRests ==
    /\ last.op = "add_limit"
    /\ last.vol <= 0
    /\ \E id \in last.ids :
          /\ id \in ob.orders
          /\ Vol(id) <= 0
          /\ id \in Queued(SideBook(ob, all_orders[id].side))

\* C12: a configuration with a probability below 0 or above 1 is rejected
\* before the first tick: the run executes no tick and changes no book.
InvalidConfig(c) ==
    \E p \in {c.P_MARKET_BUY, c.P_MARKET_SELL, c.P_CANCEL} : p < 0 \/ p > UNIT
ConfigRejected ==
    InvalidConfig(cfg) =>
        /\ all_orders = <<>>
        /\ ob.orders = {}
        /\ ohlc = <<>>
        /\ t = 0

\* a run under an invalid configuration went through every tick, traded,
\* and ended without an exception
InvalidConfigRuns ==
    /\ InvalidConfig(cfg)
    /\ pc = "done"
    /\ raised = NoExc
    /\ Len(ohlc) = TICKS
    /\ filled_total > 0

\* C13: a market order never rests.  A match_market call of the run creates
\* no order and adds no id to the book, leaves the queues and the orders of
\* the submitter's own side as they were, and is made once per event; the
\* tick's traded volume grows by the filled amount and the inventory moves
\* by the filled amount (then clipped), whatever was requested.
MarketOrderNeverRests ==
    [][Called("match_market") =>
         LET own == last'.side
             inv == IF own = "buy" THEN mm_inv - last'.filled
                    ELSE mm_inv + last'.filled
         IN /\ SideBook(ob', own) = SideBook(ob, own)
            /\ ob'.orders \subseteq ob.orders
            /\ DOMAIN all_orders' = DOMAIN all_orders
            /\ LimitOrder_id' = LimitOrder_id
            /\ \A id \in OnSide(own) : all_orders'[id] = all_orders[id]
            /\ events' = Tail(events)
            /\ bar'.traded = bar.traded + last'.filled
            /\ mm_inv' = clip(inv, -INV_MAX, INV_MAX)]_vars

\* the last market order was filled in part only, its remainder is nowhere:
\* the opposite side is empty and the own side holds what it held
MarketOrderPartlyFilled ==
    /\ last.op = "match_market"
    /\ 0 < last.filled
    /\ last.filled < last.vol
    /\ OnSide(Opposite(last.side)) = {}
    /\ OnSide(last.side) # {}
    /\ \A id \in OnSide(last.side) : Vol(id) = added_vol[id]
    /\ bar.traded = last.filled

\* C14: cancel_random(p, t) removes exactly the orders it draws, all of them
\* active at the call: each gets end_tick = t and nothing else of it changes,
\* and it is in no queue and not in the registry afterwards; every other
\* order is untouched; every level keeps its surviving ids in their order,
\* and a level left without ids has no key.
Survivors(q, gone) == LET Keep(id) == id \notin gone IN SelectSeq(q, Keep)
CancelFrame ==
    [][Called("cancel_random") =>
         LET gone == ob.orders \ ob'.orders
         IN /\ ob'.orders \subseteq ob.orders
            /\ gone = last'.ids
            /\ DOMAIN all_orders' = DOMAIN all_orders
            /\ \A id \in gone :
                  /\ all_orders[id].end_tick = None
                  /\ all_orders'[id] = [all_orders[id] EXCEPT !.end_tick = t]
                  /\ id \notin Queued(ob'.bids) \cup Queued(ob'.asks)
            /\ \A id \in DOMAIN all_orders \ gone :
                  all_orders'[id] = all_orders[id]
            /\ \A side \in Sides :
                  LET before == SideBook(ob, side)
                      after == SideBook(ob', side)
                  IN /\ DOMAIN after \subseteq DOMAIN before
                     /\ \A p \in DOMAIN before :
                           LET q == Survivors(before[p], gone)
                           IN IF q = <<>> THEN p \notin DOMAIN after
                              ELSE p \in DOMAIN after /\ after[p] = q]_vars

\* the last call cancelled the middle one of three orders of a level, the
\* other two are still queued there, the earlier one first
CancelFrameWitness ==
    /\ last.op = "cancel_random"
    /\ \E id \in last.ids : \E A, B \in ob.orders :
          /\ A < id /\ id < B
          /\ all_orders[id].end_tick = t
          /\ id \notin ob.orders
          /\ all_orders[A].side = all_orders[id].side
          /\ all_orders[B].side = all_orders[id].side
          /\ all_orders[A].price = all_orders[id].price
          /\ all_orders[B].price = all_orders[id].price
          /\ SideBook(ob, all_orders[id].side)[all_orders[id].price] = <<A, B>>

\* C15: order lifecycle.  While the tick loop runs, an order created so far
\* is in the registry exactly when its end_tick is unset, and a set end_tick
\* is not before start_tick.  end_tick is set by a match_market, cancel_random
\* or remove_by_flag call that takes the order out of the registry, to the
\* tick of that call; a new order starts registered with end_tick unset; and
\* an end_tick once set never changes, not even after the loop.
InRun == pc # "done"
Ended(id) == all_orders[id].end_tick # None
RestingAt(side, p) ==
    {id \in ob.orders : all_orders[id].side = side /\ all_orders[id].price = p}
DepthSidePairs ==
    \A side \in Sides : \A N \in 0..MaxLevels :
        LET book == SideBook(ob, side)
            L == Cardinality(DOMAIN book)
            d == depth_side(Cur.b, IF side = "buy" THEN "bid" ELSE "ask", N)
        IN /\ DOMAIN d = 1..N
           /\ \A i \in 1..N :
                 IF i <= L
                 THEN /\ d[i][1] \in DOMAIN book
                      /\ Cardinality({p \in DOMAIN book :
                             Better(Opposite(side), p, d[i][1])}) = i - 1
                      /\ d[i][2] = ActiveVolume(RestingAt(side, d[i][1]))
                 ELSE d[i] = <<NaN, 0>>

\* the bids hold two levels, the better one with two orders, and the asks
\* hold none: asked for one level depth_side leaves the second bid level out
\* and sums the two orders of the first, asked for two levels of asks it
\* returns two paddings
DepthSideWitness ==
    /\ Cardinality(DOMAIN ob.bids) = 2
    /\ DOMAIN ob.asks = {}
    /\ Len(ob.bids[Max(DOMAIN ob.bids)]) = 2
    /\ depth_side(Cur.b, "bid", 1) =
          << <<Max(DOMAIN ob.bids),
               ActiveVolume(Range(ob.bids[Max(DOMAIN ob.bids)]))>> >>
    /\ depth_side(Cur.b, "ask", 2) = << <<NaN, 0>>, <<NaN, 0>> >>

\* C17: when the resilience loop is over, the entry of every shock tick t is
\* the smallest offset k, 1 <= k <= 100 and t + k inside the series, at which
\* the liquidity is back to thresh * liquidity[t-1], and NaN when there is
\* no such offset; a first recovery 100 ticks after the shock is recorded
\* as 100.
ResilienceDone == liquidity # <<>> /\ rt >= Len(liquidity)
Recoveries(tk) ==
    {k \in 1..HORIZON : tk + k < Len(liquidity) /\ recovered(liquidity, tk, k)}
ResilienceHorizon ==
    ResilienceDone =>
        \A tk \in 1..(Len(liquidity) - 1) :
            shock(liquidity, tk) =>
                resilience_times[tk + 1] =
                    IF Recoveries(tk) = {} THEN NaN ELSE Min(Recoveries(tk))

\* the loop is over on a series whose liquidity first recovers exactly 100
\* ticks after the shock, and the entry of the shock tick is NaN
RecoveryAtHorizonLost ==
    /\ ResilienceDone
    /\ \E tk \in 1..(Len(liquidity) - 1) :
          /\ shock(liquidity, tk)
          /\ Recoveries(tk) = {HORIZON}
          /\ resilience_times[tk + 1] = NaN

\* C18: the entry of tick 0 and of every tick that is not a shock tick is
\* NaN, at every point of the loop; so a series without a shock has only
\* NaN entries.
ResilienceNaN ==
    /\ Len(resilience_times) = Len(liquidity)
    /\ \A i \in 1..Len(liquidity) :
          (i = 1 \/ ~shock(liquidity, i - 1)) => resilience_times[i] = NaN

\* the loop is over on a series that falls, by less than the threshold, and
\* rises again: no entry was written
ResilienceNaNWitness ==
    /\ ResilienceDone
    /\ \E i \in 2..(Len(liquidity) - 1) :
          /\ liquidity[i] < liquidity[i - 1]
          /\ ~shock(liquidity, i - 1)
          /\ liquidity[i + 1] > liquidity[i]
          /\ resilience_times[i] = NaN
    /\ \A i \in 1..Len(liquidity) : resilience_times[i] = NaN

\* C19: the clock goes through the ticks 0 .. TICKS-1 in order, one at a
\* time, and the script ends: no step raises, within a tick the steps come in
\* the order of the loop body, and every step either moves to the next tick,
\* or moves on within the tick, or takes one event off the tick's list, so
\* that no run goes on for ever (t is at most TICKS); every call of the
\* model's loops, match_market's among them, is evaluated to its end.  Every
\* finished tick has added exactly one entry to each per-tick series (the
\* spread and the depths at the snapshot, the bar and the volume at the end
\* of the tick), and no entry is changed afterwards.
IsPrefix(a, b) == Len(a) <= Len(b) /\ SubSeq(b, 1, Len(a)) = a
PerTickSeries ==
    <<ohlc, volumes, spread_series, depth_bid_series, depth_ask_series>>
Rank(p) ==
    CASE p = "retract" -> 5 [] p = "quote" -> 4 [] p = "events" -> 3
      [] p = "cancel" -> 2 [] p = "after" -> 1 [] OTHER -> 0
Progress ==
    \/ t' > t
    \/ t' = t /\ Rank(pc') < Rank(pc)
    \/ t' = t /\ pc' = pc /\ Len(events') < Len(events)
ClockRuns ==
    /\ [](/\ t \in 0..TICKS
          /\ pc # "crashed"
          /\ pc \in {"retract", "quote", "events", "cancel"} => t < TICKS
          /\ pc \in {"after", "done"} => t = TICKS
          /\ Len(ohlc) = t
          /\ Len(volumes) = t
          /\ Len(spread_series) = IF pc = "cancel" THEN t + 1 ELSE t
          /\ Len(depth_bid_series) = Len(spread_series)
          /\ Len(depth_ask_series) = Len(spread_series))
    /\ [][/\ Progress
          /\ t' = IF pc = "cancel" THEN t + 1 ELSE t
          /\ <<pc, pc'>> \in
                {<<"retract", "quote">>, <<"quote", "events">>,
                 <<"events", "events">>, <<"events", "cancel">>,
                 <<"cancel", "retract">>, <<"cancel", "after">>,
                 <<"after", "done">>}
          /\ \A i \in 1..Len(PerTickSeries) :
                IsPrefix(PerTickSeries[i], PerTickSeries'[i])]_vars

\* the script has ended after TICKS ticks in which market orders traded
\* different volumes, and every series has TICKS entries
ClockRunsWitness ==
    /\ pc = "done"
    /\ t = TICKS
    /\ \A i \in 1..Len(PerTickSeries) : Len(PerTickSeries[i]) = TICKS
    /\ volumes[1] # volumes[TICKS]
    /\ volumes[TICKS] > 0

\* C20: the Hurst value recorded for a tick is NaN whenever its window holds
\* a chunk of zero variance (a chunk of one of the sizes min_chunk .. N/2 - 1
\* whose values are all equal) or is constant; and hurst_rs returns NaN for
\* a window shorter than twice min_chunk, whatever the floating point does.
ZeroVarianceChunk(series) ==
    \E size \in MIN_CHUNK..(Len(series) \div 2 - 1) :
        \E i \in 0..(Len(series) \div size - 1) :
            constant(series, i * size + 1, (i + 1) * size)
HurstDegenerateNaN ==
    /\ \A i \in WINDOW..(idx - 1) :
          (ZeroVarianceChunk(segment(i)) \/ constant(segment(i), 1, WINDOW))
              => hurst_values[i] = NaN
    /\ \A n \in 0..(2 * MIN_CHUNK - 1) : \A exact, lo_down, hi_up \in BOOLEAN :
          n <= Len(close_prices) =>
             hurst_rs(SubSeq(close_prices, 1, n), MIN_CHUNK, exact, lo_down,
                      hi_up) = NaN

\* the window's first 20 closes are equal, a chunk of zero variance, the
\* rest of the window moves, and the value recorded for the tick is a number
ZeroVarianceChunkFitted ==
    /\ idx > WINDOW
    /\ constant(close_prices, 1, MIN_CHUNK)
    /\ ~constant(close_prices, MIN_CHUNK, WINDOW)
    /\ hurst_values[WINDOW] = H_FIT

\* C21: market-maker quote replacement.  When the quotes of a tick are
\* posted no tagged order is active; the retraction of tick t removes every
\* active tagged order and stamps it end_tick = t; the posting adds exactly
\* two orders, both tagged, one buy and one sell, with start_tick = t.  So
\* the book never holds more than one tagged order per side, and an active
\* tagged order was posted in the tick under way or, until the retraction
\* that opens a tick (or after the last tick), in the tick before.
Tagged(id) == all_orders[id].mm_tag
ActiveQuotes(side) == {id \in OnSide(side) : Tagged(id)}
QuoteReplacement ==
    /\ [](/\ \A side \in Sides : Cardinality(ActiveQuotes(side)) <= 1
          /\ pc = "quote" => \A side \in Sides : ActiveQuotes(side) = {}
          /\ \A id \in ob.orders :
                Tagged(id) =>
                   \/ all_orders[id].start_tick = t
                   \/ /\ all_orders[id].start_tick = t - 1
                      /\ pc \in {"retract", "after", "done"}
          /\ \A id \in DOMAIN all_orders :
                (Tagged(id) /\ all_orders[id].end_tick # None) =>
                   all_orders[id].end_tick <= all_orders[id].start_tick + 1)
    /\ [][/\ Called("remove_by_flag") =>
               /\ \A id \in ob.orders :
                     Tagged(id) <=> id \notin ob'.orders
               /\ \A id \in ob.orders \ ob'.orders :
                     all_orders'[id].end_tick = t
          /\ Called("quote") =>
               LET new == ob'.orders \ ob.orders
               IN /\ ob.orders \subseteq ob'.orders
                  /\ Cardinality(new) = 2
                  /\ new = DOMAIN all_orders' \ DOMAIN all_orders
                  /\ \A id \in new : /\ all_orders'[id].mm_tag
                                     /\ all_orders'[id].start_tick = t
                                     /\ all_orders'[id].end_tick = None
                  /\ {all_orders'[id].side : id \in new} = Sides]_vars

\* the second tick's quotes are in the book next to an untagged limit order
\* of the first tick; of the first tick's quotes one was filled in part and
\* both were retracted with end_tick = 1
QuoteReplacementWitness ==
    /\ t = 1
    /\ pc = "events"
    /\ \A side \in Sides :
          /\ Cardinality(ActiveQuotes(side)) = 1
          /\ \E id \in DOMAIN all_orders :
                /\ Tagged(id)
                /\ all_orders[id].side = side
                /\ all_orders[id].start_tick = 0
                /\ all_orders[id].end_tick = 1
                /\ Vol(id) > 0
    /\ \E id \in DOMAIN all_orders :
          Tagged(id) /\ all_orders[id].end_tick = 1 /\ Vol(id) < added_vol[id]
    /\ \E id \in ob.orders : ~Tagged(id) /\ all_orders[id].start_tick = 0

\* C22: inventory update rule.  An event that is a market order moves the
\* inventory by the volume its match_market call took out of the book, down
\* for a buy and up for a sell, whichever orders it came from, and the
\* result is clamped to [-INV_MAX, INV_MAX]; that volume is what the call
\* returned.  A market order that filled nothing, a limit order, a
\* cancellation, a retraction, a posting of quotes and every other step
\* leave the inventory as it is.
Taken == ActiveVolume(ob.orders) -
             SumOver(ob.orders \cap ob'.orders,
                     [id \in DOMAIN all_orders |-> VolAfter(id)])
InventoryRule ==
    [][/\ Called("match_market") =>
            /\ last'.filled = Taken
            /\ bar'.filled = Taken
            /\ mm_inv' = clip(IF last'.side = "buy" THEN mm_inv - Taken
                              ELSE mm_inv + Taken, -INV_MAX, INV_MAX)
       /\ (~Called("match_market") \/ last'.filled = 0) => mm_inv' = mm_inv]_vars

\* the last market sell was filled by a resting limit order of a trader, the
\* two quotes are untouched, and the inventory went up by the filled volume
InventoryMovedByOthers ==
    /\ last.op = "match_market"
    /\ last.side = "sell"
    /\ last.filled > 0
    /\ mm_inv = last.filled
    /\ \A id \in DOMAIN all_orders :
          Tagged(id) => Vol(id) = added_vol[id]
    /\ \E id \in DOMAIN all_orders :
          ~Tagged(id) /\ Vol(id) < added_vol[id]

\* C23: mid-price update.  After every processed event (a limit order added
\* or a market order matched) the mid price is the midpoint of the best bid
\* and the best ask of the book as it then is, or the best price of the only
\* side that has orders, or what it was when the book is empty; no other
\* step (retraction, posting of quotes, snapshot, cancellation, back-fill)
\* changes the mid price.  The mid price is in half ticks.
MidOf(book, previous) ==
    IF DOMAIN book.bids # {} /\ DOMAIN book.asks # {}
    THEN Max(DOMAIN book.bids) + Min(DOMAIN book.asks)
    ELSE IF DOMAIN book.bids # {} THEN 2 * Max(DOMAIN book.bids)
    ELSE IF DOMAIN book.asks # {} THEN 2 * Min(DOMAIN book.asks)
    ELSE previous
MidPriceUpdate ==
    [][IF Called("add_limit") \/ Called("match_market")
       THEN mid' = MidOf(ob', mid)
       ELSE mid' = mid]_vars

\* a market buy took the whole ask side, which left the mid at the best bid,
\* and the market sell that followed emptied the book: the mid is still the
\* price of the bid quote, away from the initial price
MidKeptOnEmptyBook ==
    /\ last.op = "match_market"
    /\ last.side = "sell"
    /\ last.filled > 0
    /\ ob.orders = {}
    /\ DOMAIN ob.bids = {} /\ DOMAIN ob.asks = {}
    /\ mid # 2 * P0 * TICKS_PER_UNIT
    /\ \E id \in DOMAIN all_orders :
          /\ Tagged(id)
          /\ FullyFilled(id)
          /\ all_orders[id].side = "buy"
          /\ mid = 2 * all_orders[id].price

\* C24: the book of a run is never crossed or locked: whenever both sides
\* hold orders the best bid is below the best ask, and every spread
\* recorded as a number is strictly positive.
BookNeverLocked ==
    /\ (DOMAIN ob.bids # {} /\ DOMAIN ob.asks # {})
          => Max(DOMAIN ob.bids) < Min(DOMAIN ob.asks)
    /\ \A i \in 1..Len(spread_series) :
          spread_series[i] # NaN => spread_series[i] > 0

\* a market buy took the whole ask side, the limit sell that followed was
\* priced at the mid, which then was the best bid, and rests there: best bid
\* and best ask are the same price, and the tick recorded a spread of 0
LockedBook ==
    /\ pc = "cancel"
    /\ DOMAIN ob.bids # {} /\ DOMAIN ob.asks # {}
    /\ Max(DOMAIN ob.bids) = Min(DOMAIN ob.asks)
    /\ spread_series[Len(spread_series)] = 0
    /\ \E A \in OnSide("buy"), B \in OnSide("sell") :
          /\ all_orders[A].price = all_orders[B].price
          /\ Vol(A) > 0 /\ Vol(B) > 0

\* C25: trend sign.  At every tick t >= N, N the trend window, the trend
\* sign is the sign of the mean of the last N closes minus the mean of the N
\* closes before them, the closes before tick 0 being the initial price; the
\* tick's trend-follower count goes to the buys when the sign is positive,
\* to the sells when it is negative, and to neither when it is zero.
\* (Both means are over N closes, so the sign is that of the difference of
\* the sums.)
CloseAt(k) == IF k >= 1 THEN close_prices[k] ELSE 2 * P0 * TICKS_PER_UNIT
SumCloses(a, b) ==
    SumOver(a..b, [k \in a..b |-> CloseAt(k)])
TwoWindowSign ==
    Sign(SumCloses(t - TREND_WINDOW + 1, t)
         - SumCloses(t - 2 * TREND_WINDOW + 1, t - TREND_WINDOW))
TrendSign ==
    [][(Called("trend") /\ t >= TREND_WINDOW) =>
          events' = event_list(0, 0,
                       IF TwoWindowSign > 0 THEN last'.vol ELSE 0,
                       IF TwoWindowSign < 0 THEN last'.vol ELSE 0)]_vars

\* tick 2 has run after the closes P0 + 1/2 tick and P0: the last two closes
\* lie above the two before them (the initial price twice), and the tick's
\* trend followers sold
TrendFollowsLastMove ==
    /\ last.op = "trend"
    /\ t = TREND_WINDOW + 1
    /\ close_prices[1] = 2 * P0 * TICKS_PER_UNIT + 1
    /\ close_prices[2] = 2 * P0 * TICKS_PER_UNIT
    /\ last.vol > 0
    /\ events = [i \in 1..last.vol |-> "sell_tf"]

\* C26 as stated: for the same mid price, a positive inventory quotes both
\* the bid and the ask no higher than zero inventory does, and a negative
\* inventory quotes both no lower.
Posted == pc = "events" /\ last.op = "quote"
QuotePrice(side) == all_orders[CHOOSE id \in ActiveQuotes(side) : TRUE].price
QuoteVolume(side) == all_orders[CHOOSE id \in ActiveQuotes(side) : TRUE].volume
BothQuotesFollowSkew ==
    Posted =>
       /\ mm_inv > 0 => /\ QuotePrice("buy") <= bid_price(mid, 0)
                        /\ QuotePrice("sell") <= ask_price(mid, 0)
       /\ mm_inv < 0 => /\ QuotePrice("buy") >= bid_price(mid, 0)
                        /\ QuotePrice("sell") >= ask_price(mid, 0)

\* C26, amended: for the same mid price the quotes of a positive inventory
\* are no higher, bid and ask alike, than the quotes of the negative
\* inventory of the same size (the skew); against the quotes of zero
\* inventory a positive inventory quotes the bid no higher and a negative
\* one the ask no lower, and at a mid price above 10, where the extra
\* half-spread mid * INV_SPREAD_GAMMA / 2 per unit exceeds the skew INV_ALPHA
\* per unit, every inventory quotes the bid no higher and the ask no lower
\* than zero inventory does.
WideningOutweighsSkew ==
    mid * INV_SPREAD_GAMMA > 4 * INV_ALPHA * TICKS_PER_UNIT
SkewDirection ==
    Posted =>
       /\ mm_inv > 0 => /\ QuotePrice("buy") <= bid_price(mid, -mm_inv)
                        /\ QuotePrice("sell") <= ask_price(mid, -mm_inv)
                        /\ QuotePrice("buy") <= bid_price(mid, 0)
       /\ mm_inv < 0 => /\ QuotePrice("buy") >= bid_price(mid, -mm_inv)
                        /\ QuotePrice("sell") >= ask_price(mid, -mm_inv)
                        /\ QuotePrice("sell") >= ask_price(mid, 0)
       /\ WideningOutweighsSkew =>
             /\ QuotePrice("buy") <= bid_price(mid, 0)
             /\ QuotePrice("sell") >= ask_price(mid, 0)

\* the quotes of the inventory INV_MAX at the initial price: the ask is
\* above the ask of zero inventory, and below the ask of the inventory
\* -INV_MAX by twice the skew of 25 ticks
AskRaisedByLongInventory ==
    /\ Posted
    /\ mid = 2 * P0 * TICKS_PER_UNIT
    /\ mm_inv = INV_MAX
    /\ WideningOutweighsSkew
    /\ QuotePrice("sell") > ask_price(mid, 0)
    /\ QuotePrice("buy") < bid_price(mid, 0)
    /\ QuotePrice("sell") = ask_price(mid, -mm_inv) - 50
    /\ QuotePrice("buy") = bid_price(mid, -mm_inv) - 50

\* C27: asymmetric quote size.  With a positive inventory the bid volume is
\* at most MM_BASE_VOL and the ask volume is MM_BASE_VOL, with a negative
\* inventory the ask volume is at most MM_BASE_VOL and the bid volume is
\* MM_BASE_VOL, with none both are MM_BASE_VOL; both volumes are always at
\* least floor(0.1 * MM_BASE_VOL) and positive.
AsymmetricQuoteSize ==
    Posted =>
       /\ mm_inv > 0 => /\ QuoteVolume("buy") <= MM_BASE_VOL
                        /\ QuoteVolume("sell") = MM_BASE_VOL
       /\ mm_inv < 0 => /\ QuoteVolume("sell") <= MM_BASE_VOL
                        /\ QuoteVolume("buy") = MM_BASE_VOL
       /\ mm_inv = 0 => /\ QuoteVolume("buy") = MM_BASE_VOL
                        /\ QuoteVolume("sell") = MM_BASE_VOL
       /\ \A side \in Sides :
             /\ QuoteVolume(side) >= MM_BASE_VOL \div 10
             /\ QuoteVolume(side) > 0

\* the quotes of the inventory -INV_MAX: the ask volume is at the floor of a
\* tenth of the base volume, the bid volume is the base volume
QuoteSizeAtFloor ==
    /\ Posted
    /\ mm_inv = -INV_MAX
    /\ QuoteVolume("sell") = MM_BASE_VOL \div 10
    /\ QuoteVolume("buy") = MM_BASE_VOL

\* C28: snapshot ordering within a tick.  The spread and the top-5 depths of
\* tick t are recorded once all events of the tick are processed, from the
\* book as it then is, and the book is not touched between that and the
\* tick's cancel_random: up to the cancellation the last recorded entries
\* are those of the current book, orders about to be cancelled included.
\* cancel_random changes no recorded entry and ends the tick; the
\* retraction and the quoting of a tick start with every series complete up
\* to the tick before, and the retraction of a later tick follows the
\* cancellation of the tick before it.
SpreadOf(book) ==
    IF DOMAIN book.bids # {} /\ DOMAIN book.asks # {}
    THEN Min(DOMAIN book.asks) - Max(DOMAIN book.bids) ELSE NaN
DepthVolumes(side) == [i \in 1..5 |-> depth_side(Cur.b, side, 5)[i][2]]
SnapshotOrdering ==
    /\ [](pc = "cancel" =>
             /\ Len(spread_series) = t + 1
             /\ spread_series[t + 1] = SpreadOf(ob)
             /\ depth_bid_series[t + 1] = DepthVolumes("bid")
             /\ depth_ask_series[t + 1] = DepthVolumes("ask"))
    /\ [][/\ Called("snapshot") =>
               /\ events = <<>>
               /\ BookUnchanged
               /\ t' = t
               /\ spread_series' = Append(spread_series, SpreadOf(ob))
               /\ depth_bid_series' =
                     Append(depth_bid_series, DepthVolumes("bid"))
               /\ depth_ask_series' =
                     Append(depth_ask_series, DepthVolumes("ask"))
          /\ Called("cancel_random") =>
               /\ pc = "cancel"
               /\ last.op = "snapshot"
               /\ spread_series' = spread_series
               /\ depth_bid_series' = depth_bid_series
               /\ depth_ask_series' = depth_ask_series
               /\ t' = t + 1
          /\ (Called("remove_by_flag") \/ Called("quote")) =>
               \A i \in 1..Len(PerTickSeries) : Len(PerTickSeries[i]) = t
          /\ (Called("remove_by_flag") /\ t > 0) =>
               last.op = "cancel_random"]_vars

\* a limit sell of the first tick was cancelled by that tick's
\* cancel_random: its volume is in the second ask level recorded for the
\* first tick, and the second tick records no second ask level
CancelledOrderCounted ==
    /\ Len(depth_ask_series) = 2
    /\ \E id \in DOMAIN all_orders :
          /\ ~Tagged(id)
          /\ all_orders[id].side = "sell"
          /\ all_orders[id].start_tick = 0
          /\ all_orders[id].end_tick = 0
          /\ Vol(id) = added_vol[id]
          /\ depth_ask_series[1][2] = Vol(id)
          /\ depth_ask_series[2][2] = 0
    /\ spread_series[1] # NaN

\* C29: partially filled orders stay at the head.  An active order whose
\* volume is below the volume it was added with is the first id of the
\* queue of its price level; so no level holds two such orders.
PartialAtHead ==
    \A id \in ob.orders :
        Vol(id) < added_vol[id] =>
            Head(SideBook(ob, all_orders[id].side)[all_orders[id].price]) = id

\* a partly filled order heads a level with another order behind it, after
\* the order added before it at that level was filled entirely
PartialAtHeadWitness ==
    \E id \in ob.orders :
        /\ PartlyFilled(id)
        /\ Len(SideBook(ob, all_orders[id].side)[all_orders[id].price]) >= 2
        /\ \E gone \in DOMAIN all_orders :
              /\ gone \notin ob.orders
              /\ Vol(gone) = 0
              /\ all_orders[gone].side = all_orders[id].side
              /\ all_orders[gone].price = all_orders[id].price
              /\ gone < id

\* C30: OHLC consistency.  Every recorded bar (o, h, l, c) has l <= o <= h
\* and l <= c <= h; the open of tick 0 is the initial price and the open of
\* every later tick is the close of the tick before.  When the quotes of a
\* tick are posted its bar stands at o = h = l = mid = the previous close,
\* whatever the new quotes are; the snapshot leaves the bar and the mid
\* alone, and the end of the tick records the bar as it stands with the mid
\* as its close: a tick without events records the previous close four
\* times.
PrevClose == IF ohlc = <<>> THEN 2 * P0 * TICKS_PER_UNIT ELSE ohlc[Len(ohlc)][4]
OhlcConsistency ==
    /\ [](/\ \A i \in 1..Len(ohlc) :
                /\ ohlc[i][3] <= ohlc[i][1] /\ ohlc[i][1] <= ohlc[i][2]
                /\ ohlc[i][3] <= ohlc[i][4] /\ ohlc[i][4] <= ohlc[i][2]
                /\ ohlc[i][1] = IF i = 1 THEN 2 * P0 * TICKS_PER_UNIT
                                ELSE ohlc[i - 1][4]
          /\ pc \in {"events", "cancel"} =>
                /\ bar.o = PrevClose
                /\ bar.l <= bar.o /\ bar.o <= bar.h
                /\ bar.l <= mid /\ mid <= bar.h
          /\ (pc = "events" /\ last.op = "quote") =>
                /\ bar.o = mid /\ bar.h = mid /\ bar.l = mid
                /\ mid = PrevClose)
    /\ [][/\ Called("snapshot") => (bar' = bar /\ mid' = mid)
          /\ Called("cancel_random") =>
                ohlc' = Append(ohlc, <<bar.o, bar.h, bar.l, mid>>)]_vars

\* the first tick moved the mid away from the initial price and left the
\* market maker with an inventory; the second tick had no event: its quotes
\* are in the book, centred away from the mid, and its bar is the first
\* tick's close four times
FlatBarWitness ==
    /\ Len(ohlc) = 2
    /\ used.events = 1
    /\ ohlc[1][2] # ohlc[1][3]
    /\ ohlc[1][4] # 2 * P0 * TICKS_PER_UNIT
    /\ ohlc[2] = <<ohlc[1][4], ohlc[1][4], ohlc[1][4], ohlc[1][4]>>
    /\ mm_inv # 0
    /\ \E A \in ActiveQuotes("buy"), B \in ActiveQuotes("sell") :
          /\ all_orders[A].start_tick = 1
          /\ all_orders[B].start_tick = 1
          /\ all_orders[A].price + all_orders[B].price # ohlc[2][4]
====
